---------------------------- MODULE Spec2Model ----------------------------
(***************************************************************************)
(* gerenciadorComandos: a serial command parser and dispatcher for an      *)
(* Arduino sketch, with a non-blocking LED blink driven from loop().       *)
(*                                                                         *)
(* An Arduino String is modelled as a sequence of one-character strings.   *)
(* int is the 16-bit int of the AVR boards the sketch names (Arduino Uno). *)
(* unsigned long is 32 bits; an unsigned long value u is represented by    *)
(* its two's complement reading (u itself below 2^31, u - 2^32 from 2^31   *)
(* on), so that the values just before the counter wraps are -1, -2, ...   *)
(* and sums and differences modulo 2^32 are plain sums and differences.    *)
(***************************************************************************)
EXTENDS Integers, Sequences, FiniteSets, TLC

(***************************************************************************)
(* Machine arithmetic                                                      *)
(***************************************************************************)
IntMax == 32767
IntMod == 2 * (IntMax + 1)

\* Conversion of a wider integer to int (two's complement truncation).
ToInt(x) == ((x + IntMax + 1) % IntMod) - (IntMax + 1)

\* a >= b between two unsigned long values: a value of the upper half of the
\* range (negative reading) is above every value of the lower half.
UMaiorIgual(a, b) == IF (a < 0) = (b < 0) THEN a >= b ELSE a < 0

LOW == 0
HIGH == 1

(***************************************************************************)
(* Arduino String primitives used by the library                           *)
(***************************************************************************)
\* The characters isspace() accepts (String::trim removes these).
Espacos == {" ", "\t", "\n", "\r", "\f"}

Digitos == {"0", "1", "2", "3", "4", "5", "6", "7", "8", "9"}

DigitVal(c) ==
  CASE c = "0" -> 0 [] c = "1" -> 1 [] c = "2" -> 2 [] c = "3" -> 3
    [] c = "4" -> 4 [] c = "5" -> 5 [] c = "6" -> 6 [] c = "7" -> 7
    [] c = "8" -> 8 [] c = "9" -> 9

RECURSIVE TrimEsquerda(_)
TrimEsquerda(s) ==
  IF s # <<>> /\ Head(s) \in Espacos THEN TrimEsquerda(Tail(s)) ELSE s

RECURSIVE TrimDireita(_)
TrimDireita(s) ==
  IF s # <<>> /\ s[Len(s)] \in Espacos
  THEN TrimDireita(SubSeq(s, 1, Len(s) - 1))
  ELSE s

trimNada(s) == s

trimSoDireita(s) == TrimDireita(s)

\* String::trim()
trim(s) == TrimDireita(TrimEsquerda(s))

\* String::indexOf(ch): 0-based index of the first ch, -1 when absent.
indexOf(s, ch) ==
  IF \E k \in 1..Len(s) : s[k] = ch
  THEN (CHOOSE k \in 1..Len(s) : s[k] = ch /\ \A j \in 1..(k - 1) : s[j] # ch) - 1
  ELSE -1

\* String::substring(from, to): characters from..to-1 (0-based).
substring(s, from, to) == SubSeq(s, from + 1, to)

\* String::substring(from): from the 0-based index to the end.
substringFrom(s, from) == SubSeq(s, from + 1, Len(s))

RECURSIVE LerDigitos(_, _)
LerDigitos(s, acc) ==
  IF s # <<>> /\ Head(s) \in Digitos
  THEN LerDigitos(Tail(s), acc * 10 + DigitVal(Head(s)))
  ELSE acc

\* String::toInt(): atol() of the buffer (leading white space, an optional
\* sign, then digits up to the first other character; 0 when there are none).
toInt(s) ==
  LET t == TrimEsquerda(s) IN
  IF t # <<>> /\ Head(t) = "-" THEN 0 - LerDigitos(Tail(t), 0)
  ELSE IF t # <<>> /\ Head(t) = "+" THEN LerDigitos(Tail(t), 0)
  ELSE LerDigitos(t, 0)

(***************************************************************************)
(* struct Comando and analisarComando                                      *)
(***************************************************************************)
maxValores == 5

Vazia == <<>>

\* The Comando as analisarComando initialises it.
ComandoVazio ==
  [nome |-> Vazia, valores |-> [i \in 0..(maxValores - 1) |-> Vazia], numValores |-> 0]

RECURSIVE LerValoresSemTrim(_)
LerValoresSemTrim(st) ==
  IF st.i < maxValores /\ Len(st.resto) > 0
  THEN LET pos == indexOf(st.resto, " ") IN
       IF pos # -1
       THEN LerValoresSemTrim([resto   |-> substringFrom(st.resto, pos + 1),
                               valores |-> [st.valores EXCEPT ![st.i] = substring(st.resto, 0, pos)],
                               i       |-> st.i + 1])
       ELSE LerValoresSemTrim([resto   |-> Vazia,
                               valores |-> [st.valores EXCEPT ![st.i] = st.resto],
                               i       |-> st.i + 1])
  ELSE st

RECURSIVE LerValoresSemLimite(_)
LerValoresSemLimite(st) ==
  IF Len(st.resto) > 0
  THEN LET pos == indexOf(st.resto, " ") IN
       IF pos # -1
       THEN LerValoresSemLimite([resto   |-> trim(substringFrom(st.resto, pos + 1)),
                                 valores |-> [st.valores EXCEPT ![st.i] = substring(st.resto, 0, pos)],
                                 i       |-> st.i + 1])
       ELSE LerValoresSemLimite([resto   |-> Vazia,
                                 valores |-> [st.valores EXCEPT ![st.i] = st.resto],
                                 i       |-> st.i + 1])
  ELSE st

\* The while loop that reads the values: st = [resto, valores, i].
RECURSIVE LerValores(_)
LerValores(st) ==
  IF st.i < maxValores /\ Len(st.resto) > 0
  THEN LET pos == indexOf(st.resto, " ") IN
       IF pos # -1
       THEN LerValores([resto   |-> trim(substringFrom(st.resto, pos + 1)),
                        valores |-> [st.valores EXCEPT ![st.i] = substring(st.resto, 0, pos)],
                        i       |-> st.i + 1])
       ELSE LerValores([resto   |-> Vazia,
                        valores |-> [st.valores EXCEPT ![st.i] = st.resto],
                        i       |-> st.i + 1])
  ELSE st

analisarComando(comandoRecebido) ==
  LET recebido == trim(comandoRecebido)
      pos == indexOf(recebido, " ")
  IN
  IF Len(recebido) = 0 THEN ComandoVazio
  ELSE IF pos # -1
  THEN LET fim == LerValores([resto   |-> trim(substringFrom(recebido, pos + 1)),
                              valores |-> ComandoVazio.valores,
                              i       |-> 0])
       IN [nome |-> substring(recebido, 0, pos), valores |-> fim.valores, numValores |-> fim.i]
  ELSE [ComandoVazio EXCEPT !.nome = recebido]


(***************************************************************************)
(* State                                                                   *)
(***************************************************************************)
VARIABLES
  piscarAtivo,             \* bool piscarAtivo
  tempoAnteriorLigado,     \* unsigned long tempoAnteriorLigado
  tempoAnteriorDesligado,  \* unsigned long tempoAnteriorDesligado
  numPiscadasRestantes,    \* int numPiscadasRestantes
  tempoLigadoAtual,        \* int tempoLigadoAtual
  tempoDesligadoAtual,     \* int tempoDesligadoAtual
  pino,                    \* level of the output pin ledPin
  relogio,                 \* the millisecond counter millis() reads
  pc,                      \* position in loop(): "serial" or "piscar"
  linha,                   \* the line read in this iteration of loop()
  comando,                 \* the Comando parsed in this iteration of loop()
  chamadas,                \* handlers processarComando invoked in this iteration
  serial,                  \* what this iteration printed on Serial
  antes,                   \* history: the globals and the pin as they were when
                           \* this iteration's command was dispatched
  contagem,                \* history: numPiscadas of the last command, when it
                           \* started a bounded blink; 0 otherwise
  nivelInicial,            \* history: pin level when the last command was handled
  transicoes               \* history: pin changes made by loop() since that command

globais == <<piscarAtivo, tempoAnteriorLigado, tempoAnteriorDesligado,
             numPiscadasRestantes, tempoLigadoAtual, tempoDesligadoAtual, pino>>

vars == <<piscarAtivo, tempoAnteriorLigado, tempoAnteriorDesligado,
          numPiscadasRestantes, tempoLigadoAtual, tempoDesligadoAtual, pino,
          relogio, pc, linha, comando, chamadas, serial, antes,
          contagem, nivelInicial, transicoes>>

\* The globals, the pin and the Serial output as one record, as the handlers
\* see them.
Estado ==
  [piscarAtivo            |-> piscarAtivo,
   tempoAnteriorLigado    |-> tempoAnteriorLigado,
   tempoAnteriorDesligado |-> tempoAnteriorDesligado,
   numPiscadasRestantes   |-> numPiscadasRestantes,
   tempoLigadoAtual       |-> tempoLigadoAtual,
   tempoDesligadoAtual    |-> tempoDesligadoAtual,
   pino                   |-> pino,
   serial                 |-> <<>>]

\* Serial.println / Serial.print: the printed item, tagged with its C++ type.
println(g, item) == [g EXCEPT !.serial = Append(@, item)]

Texto(literal) == <<"texto", literal>>
Inteiro(n) == <<"int", n>>
Cadeia(s) == <<"String", s>>

(***************************************************************************)
(* Handlers.  Each maps the state before the call to the set of states the *)
(* call can leave (one state, except where the C++ is undefined).          *)
(***************************************************************************)
TempoPadrao == 1000

\* The texts the handlers print (accents dropped).
ErroStatus == Texto("Erro: O comando 'status' nao aceita parametros.")
ErroLigarLed == Texto("Erro: O comando 'ligarLed' nao espera nenhum parametro.")
ErroDesligarLed == Texto("Erro: O comando 'desligarLed' nao espera nenhum parametro.")
ErroAjuda == Texto("Erro: A funcao 'ajuda' nao espera nenhum parametro.")
NumeroFornecidos == Texto("Numero de parametros fornecidos: ")
ErroPiscadas == Texto("Erro: O numero de piscadas deve ser maior que zero.")
ErroTempos == Texto("Erro: Os valores de tempo devem ser maiores que zero.")
ErroPiscarParametros == Texto("Erro: O comando 'piscarLed' espera 0, 1, 2 ou 3 parametros.")
Online == Texto("online")
ListaDeComandos ==
  <<Texto("Lista de Comandos:"),
    Texto("------------------"),
    Texto("status: Exibe o estado atual do sistema."),
    Texto("ligarLed: Liga o LED continuamente."),
    Texto("desligarLed: Desliga o LED."),
    Texto("piscarLed:"),
    Texto("  Pisca o LED com diferentes configuracoes:"),
    Texto("  - Sem parametros: Pisca indefinidamente com 1 segundo ligado e 1 segundo desligado."),
    Texto("  - <numPiscadas>: Pisca o LED o numero especificado de vezes, com 1 segundo ligado e 1 segundo desligado."),
    Texto("  - <tempoLigado> <tempoDesligado>: Pisca indefinidamente com os tempos fornecidos (em milissegundos)."),
    Texto("  - <numPiscadas> <tempoLigado> <tempoDesligado>: Pisca o LED <numPiscadas> vezes com os tempos fornecidos (em milissegundos)."),
    Texto("ajuda: Exibe esta lista de comandos."),
    Texto("------------------")>>
ErroInvalido == Texto("ERRO: Comando invalido: ")
DigiteAjuda == Texto("Digite 'ajuda' para listar os comandos disponiveis.")

ErroParametros(g, texto, comando_) ==
  println(println(println(g, texto), NumeroFornecidos),
          Inteiro(comando_.numValores))

tratarStatus(comando_, g) ==
  IF comando_.numValores # 0
  THEN {ErroParametros(g, ErroStatus, comando_)}
  ELSE {println(g, Online)}

tratarLigarLedSemDesativar(comando_, g) ==
  IF comando_.numValores # 0
  THEN {ErroParametros(g, ErroLigarLed, comando_)}
  ELSE {[g EXCEPT !.pino = HIGH]}

tratarLigarLedSemVerificar(comando_, g) ==
  {[g EXCEPT !.piscarAtivo = FALSE, !.pino = HIGH]}

tratarLigarLed(comando_, g) ==
  IF comando_.numValores # 0
  THEN {ErroParametros(g, ErroLigarLed, comando_)}
  ELSE {[g EXCEPT !.piscarAtivo = FALSE, !.pino = HIGH]}

tratarDesligarLedEZerar(comando_, g) ==
  IF comando_.numValores # 0
  THEN {ErroParametros(g, ErroDesligarLed, comando_)}
  ELSE {[g EXCEPT !.pino = LOW, !.piscarAtivo = FALSE, !.numPiscadasRestantes = 0]}

tratarDesligarLed(comando_, g) ==
  IF comando_.numValores # 0
  THEN {ErroParametros(g, ErroDesligarLed, comando_)}
  ELSE {[g EXCEPT !.pino = LOW, !.piscarAtivo = FALSE]}

tratarAjuda(comando_, g) ==
  IF comando_.numValores # 0
  THEN {ErroParametros(g, ErroAjuda, comando_)}
  ELSE {[g EXCEPT !.serial = @ \o ListaDeComandos]}

\* numPiscadas * 2 in int.  Signed overflow is undefined; the 16-bit
\* multiply the build emits leaves the truncated product.
Dobro(numPiscadas) ==
  IF numPiscadas * 2 <= IntMax THEN {numPiscadas * 2} ELSE {ToInt(numPiscadas * 2)}

\* The branches of tratarPiscarLed, by number of values.  g1 is the state
\* once piscarAtivo is set; t is the value millis() returns on the last line
\* of the handler, which only the branches that do not return early reach.
ErroPiscarSemDesativar(h, texto) == println(h, texto)

ErroPiscar(h, texto) == [println(h, texto) EXCEPT !.piscarAtivo = FALSE]

PiscarSemValores(g1, t) ==
  {[g1 EXCEPT !.tempoLigadoAtual = TempoPadrao,
              !.tempoDesligadoAtual = TempoPadrao,
              !.numPiscadasRestantes = -1,
              !.tempoAnteriorLigado = t]}

PiscarUmValor(comando_, g1, t) ==
  LET numPiscadas == ToInt(toInt(comando_.valores[0])) IN
  IF numPiscadas <= 0 THEN {ErroPiscar(g1, ErroPiscadas)}
  ELSE {[g1 EXCEPT !.tempoLigadoAtual = TempoPadrao,
                   !.tempoDesligadoAtual = TempoPadrao,
                   !.numPiscadasRestantes = r,
                   !.tempoAnteriorLigado = t] : r \in Dobro(numPiscadas)}

PiscarDoisValores(comando_, g1, t) ==
  LET g2 == [g1 EXCEPT !.tempoLigadoAtual = ToInt(toInt(comando_.valores[0])),
                       !.tempoDesligadoAtual = ToInt(toInt(comando_.valores[1]))]
  IN
  IF g2.tempoLigadoAtual <= 0 \/ g2.tempoDesligadoAtual <= 0
  THEN {ErroPiscar(g2, ErroTempos)}
  ELSE {[g2 EXCEPT !.numPiscadasRestantes = -1, !.tempoAnteriorLigado = t]}

PiscarTresValores(comando_, g1, t) ==
  LET numPiscadas == ToInt(toInt(comando_.valores[0]))
      g2 == [g1 EXCEPT !.tempoLigadoAtual = ToInt(toInt(comando_.valores[1])),
                       !.tempoDesligadoAtual = ToInt(toInt(comando_.valores[2]))]
  IN
  IF numPiscadas <= 0 THEN {ErroPiscar(g2, ErroPiscadas)}
  ELSE IF g2.tempoLigadoAtual <= 0 \/ g2.tempoDesligadoAtual <= 0
  THEN {ErroPiscar(g2, ErroTempos)}
  ELSE {[g2 EXCEPT !.numPiscadasRestantes = r, !.tempoAnteriorLigado = t]
          : r \in Dobro(numPiscadas)}

PiscarOutrosSemDesativar(g1) == {println(g1, ErroPiscarParametros)}

PiscarOutros(g1) == {ErroPiscar(g1, ErroPiscarParametros)}

tratarPiscarLedTresOuMais(comando_, g, t) ==
  LET g1 == [g EXCEPT !.piscarAtivo = TRUE] IN
  IF comando_.numValores = 0 THEN PiscarSemValores(g1, t)
  ELSE IF comando_.numValores = 1 THEN PiscarUmValor(comando_, g1, t)
  ELSE IF comando_.numValores = 2 THEN PiscarDoisValores(comando_, g1, t)
  ELSE PiscarTresValores(comando_, g1, t)

tratarPiscarLed(comando_, g, t) ==
  LET g1 == [g EXCEPT !.piscarAtivo = TRUE] IN
  IF comando_.numValores = 0 THEN PiscarSemValores(g1, t)
  ELSE IF comando_.numValores = 1 THEN PiscarUmValor(comando_, g1, t)
  ELSE IF comando_.numValores = 2 THEN PiscarDoisValores(comando_, g1, t)
  ELSE IF comando_.numValores = 3 THEN PiscarTresValores(comando_, g1, t)
  ELSE PiscarOutros(g1)

(***************************************************************************)
(* The dispatch table and processarComando                                 *)
(***************************************************************************)
nullptr == <<"nullptr">>

NomeStatus == <<"s", "t", "a", "t", "u", "s">>
NomeLigarLed == <<"l", "i", "g", "a", "r", "L", "e", "d">>
NomePiscarLed == <<"p", "i", "s", "c", "a", "r", "L", "e", "d">>
NomeDesligarLed == <<"d", "e", "s", "l", "i", "g", "a", "r", "L", "e", "d">>
NomeAjuda == <<"a", "j", "u", "d", "a">>

\* ComandoInfo tabelaComandos[] (0-based, as the array is)
tabelaComandos ==
  [i \in 0..5 |->
     CASE i = 0 -> [nome |-> NomeStatus,      funcao |-> "tratarStatus"]
       [] i = 1 -> [nome |-> NomeLigarLed,    funcao |-> "tratarLigarLed"]
       [] i = 2 -> [nome |-> NomePiscarLed,   funcao |-> "tratarPiscarLed"]
       [] i = 3 -> [nome |-> NomeDesligarLed, funcao |-> "tratarDesligarLed"]
       [] i = 4 -> [nome |-> NomeAjuda,       funcao |-> "tratarAjuda"]
       [] i = 5 -> [nome |-> nullptr,         funcao |-> "nullptr"]]

\* tabelaComandos[i].funcao(comando)
Chamar(funcao, comando_, g, t) ==
  CASE funcao = "tratarStatus"      -> tratarStatus(comando_, g)
    [] funcao = "tratarLigarLed"    -> tratarLigarLed(comando_, g)
    [] funcao = "tratarPiscarLed"   -> tratarPiscarLed(comando_, g, t)
    [] funcao = "tratarDesligarLed" -> tratarDesligarLed(comando_, g)
    [] funcao = "tratarAjuda"       -> tratarAjuda(comando_, g)

Minuscula(c) ==
  CASE c = "A" -> "a" [] c = "D" -> "d" [] c = "E" -> "e" [] c = "G" -> "g"
    [] c = "I" -> "i" [] c = "L" -> "l" [] c = "R" -> "r" [] c = "S" -> "s"
    [] c = "T" -> "t" [] c = "U" -> "u" [] OTHER -> c

NomesIguaisSemCaixa(nome, literal) ==
  [k \in 1..Len(nome) |-> Minuscula(nome[k])]
    = [k \in 1..Len(literal) |-> Minuscula(literal[k])]

\* comando.nome == tabelaComandos[i].nome: String::operator==(const char*)
NomesIguais(nome, literal) == nome = literal

\* The for loop of processarComando from index i on: the set of outcomes
\* [g, chamadas], chamadas listing the handlers invoked.
RECURSIVE Procurar(_, _, _, _)
Procurar(i, comando_, g, t) ==
  IF tabelaComandos[i].nome # nullptr
  THEN IF NomesIguais(comando_.nome, tabelaComandos[i].nome)
       THEN {[g |-> h, chamadas |-> <<tabelaComandos[i].funcao>>]
               : h \in Chamar(tabelaComandos[i].funcao, comando_, g, t)}
       ELSE Procurar(i + 1, comando_, g, t)
  ELSE {[g |-> println(println(println(g, ErroInvalido),
                               Cadeia(comando_.nome)),
                       DigiteAjuda),
         chamadas |-> <<>>]}

processarComandoDesdeUm(comando_, g, t) == Procurar(1, comando_, g, t)

processarComando(comando_, g, t) == Procurar(0, comando_, g, t)

(***************************************************************************)
(* loop(): the blink step                                                  *)
(***************************************************************************)
DecrementarSempre(n) == n - 1

DecrementarNaoZero(n) == IF n # 0 THEN n - 1 ELSE n

DecrementarDois(n) == IF n > 1 THEN n - 2 ELSE IF n > 0 THEN n - 1 ELSE n

\* if (numPiscadasRestantes > 0) numPiscadasRestantes--;
Decrementar(n) == IF n > 0 THEN n - 1 ELSE n

VenceuSemVolta(agora, anterior, duracao) == UMaiorIgual(agora, anterior + duracao)

\* millis() - anterior >= duracao, in unsigned long (the int duration is
\* converted to unsigned long for the comparison, by sign extension).
Venceu(agora, anterior, duracao) == UMaiorIgual(agora - anterior, duracao)

EncerrarMenorOuIgual(g1) ==
  IF g1.numPiscadasRestantes <= 0 THEN [g1 EXCEPT !.piscarAtivo = FALSE] ELSE g1

\* if (numPiscadasRestantes == 0) piscarAtivo = false;
Encerrar(g1) ==
  IF g1.numPiscadasRestantes = 0 THEN [g1 EXCEPT !.piscarAtivo = FALSE] ELSE g1

PiscarSempre(g, t1, t2) ==
  LET g1 ==
        IF g.pino = LOW
        THEN IF Venceu(t1, g.tempoAnteriorDesligado, g.tempoDesligadoAtual)
             THEN [g EXCEPT !.pino = HIGH,
                            !.tempoAnteriorLigado = t2,
                            !.numPiscadasRestantes = Decrementar(@)]
             ELSE g
        ELSE IF Venceu(t1, g.tempoAnteriorLigado, g.tempoLigadoAtual)
             THEN [g EXCEPT !.pino = LOW,
                            !.tempoAnteriorDesligado = t2,
                            !.numPiscadasRestantes = Decrementar(@)]
             ELSE g
  IN Encerrar(g1)

\* The if (piscarAtivo) block of loop().  t1 is what millis() returns in the
\* comparison, t2 what it returns when the new timestamp is stored.
Piscar(g, t1, t2) ==
  IF g.piscarAtivo
  THEN LET g1 ==
             IF g.pino = LOW
             THEN IF Venceu(t1, g.tempoAnteriorDesligado, g.tempoDesligadoAtual)
                  THEN [g EXCEPT !.pino = HIGH,
                                 !.tempoAnteriorLigado = t2,
                                 !.numPiscadasRestantes = Decrementar(@)]
                  ELSE g
             ELSE IF Venceu(t1, g.tempoAnteriorLigado, g.tempoLigadoAtual)
                  THEN [g EXCEPT !.pino = LOW,
                                 !.tempoAnteriorDesligado = t2,
                                 !.numPiscadasRestantes = Decrementar(@)]
                  ELSE g
       IN Encerrar(g1)
  ELSE g

(***************************************************************************)
(* Inputs: the lines the serial port delivers and the time that passes     *)
(***************************************************************************)
MaxQuantos == 4
MaxRelogio == MaxQuantos * 500

\* Time that passes before millis() is read, and between the two reads of
\* millis() in one blink step.
Avancos == {0, 500, 1000}
Atrasos == {0, 500}

RECURSIVE Juntar(_)
Juntar(palavras) ==
  IF Len(palavras) = 0 THEN <<>>
  ELSE IF Len(palavras) = 1 THEN palavras[1]
  ELSE palavras[1] \o <<" ">> \o Juntar(Tail(palavras))

Um == <<"1">>
T0 == <<"0">>
T250 == <<"2", "5", "0">>
T500 == <<"5", "0", "0">>
T1000 == <<"1", "0", "0", "0">>

Contagens == {T0, <<"-", "1">>, Um, <<"2">>, <<"1", "6", "3", "8", "4">>}
ParesDeTempos == {<<T500, T250>>, <<T250, T1000>>, <<T0, T250>>, <<T250, T0>>}

Repetir(palavra, k) == [i \in 1..k |-> palavra]

LinhasPiscar ==
  {NomePiscarLed}
  \cup {Juntar(<<NomePiscarLed, c>>) : c \in Contagens}
  \cup {Juntar(<<NomePiscarLed>> \o p) : p \in ParesDeTempos}
  \cup {Juntar(<<NomePiscarLed, c>> \o p) : c \in {T0, Um, <<"2">>}, p \in ParesDeTempos}
  \cup {Juntar(<<NomePiscarLed>> \o Repetir(Um, k)) : k \in 4..(maxValores + 1)}
  \cup {<<" ", " ">> \o NomePiscarLed \o <<" ", " ", " ", "2", " ", " ">>}

LinhasSemParametros ==
  {Juntar(<<n>> \o Repetir(Um, k)) :
     n \in {NomeStatus, NomeLigarLed, NomeDesligarLed, NomeAjuda},
     k \in 0..(maxValores + 1)}

LinhasDesconhecidas ==
  {<<>>, <<" ", "\t", " ">>, <<"x", " ", "1">>,
   <<"L", "i", "g", "a", "r", "L", "e", "d">>,
   <<"S", "T", "A", "T", "U", "S">>,
   NomeLigarLed \o <<"\t", "1">>}

Linhas == LinhasPiscar \cup LinhasSemParametros \cup LinhasDesconhecidas

\* analisarComando of each of these lines.
Analisado == [l \in Linhas |-> analisarComando(l)]

Nenhuma == <<"nenhuma">>
Nenhum == [nome |-> Nenhuma, valores |-> ComandoVazio.valores, numValores |-> 0]

(***************************************************************************)
(* The sketch                                                              *)
(***************************************************************************)
\* The globals as their definitions initialise them, and the pin after setup().
EstadoInicial ==
  [piscarAtivo            |-> FALSE,
   tempoAnteriorLigado    |-> 0,
   tempoAnteriorDesligado |-> 0,
   numPiscadasRestantes   |-> 0,
   tempoLigadoAtual       |-> TempoPadrao,
   tempoDesligadoAtual    |-> TempoPadrao,
   pino                   |-> LOW,
   serial                 |-> <<>>]

Init ==
  /\ piscarAtivo = EstadoInicial.piscarAtivo
  /\ tempoAnteriorLigado = EstadoInicial.tempoAnteriorLigado
  /\ tempoAnteriorDesligado = EstadoInicial.tempoAnteriorDesligado
  /\ numPiscadasRestantes = EstadoInicial.numPiscadasRestantes
  /\ tempoLigadoAtual = EstadoInicial.tempoLigadoAtual
  /\ tempoDesligadoAtual = EstadoInicial.tempoDesligadoAtual
  /\ pino = EstadoInicial.pino
  /\ relogio = 0
  /\ pc = "serial"
  /\ linha = Nenhuma
  /\ comando = Nenhum
  /\ chamadas = <<>>
  /\ serial = <<>>
  /\ antes = EstadoInicial
  /\ contagem = 0
  /\ nivelInicial = LOW
  /\ transicoes = 0

\* The clock after d more milliseconds.
Depois(d) == relogio + d

PodeAvancar(d) == d = 0 \/ relogio + d <= MaxRelogio

Gravar(g) ==
  /\ piscarAtivo' = g.piscarAtivo
  /\ tempoAnteriorLigado' = g.tempoAnteriorLigado
  /\ tempoAnteriorDesligado' = g.tempoAnteriorDesligado
  /\ numPiscadasRestantes' = g.numPiscadasRestantes
  /\ tempoLigadoAtual' = g.tempoLigadoAtual
  /\ tempoDesligadoAtual' = g.tempoDesligadoAtual
  /\ pino' = g.pino

\* numPiscadas of a command that started a bounded blink, 0 for any other.
ContagemDe(comando_, r) ==
  IF r.chamadas = <<"tratarPiscarLed">> /\ r.g.piscarAtivo /\ comando_.numValores \in {1, 3}
  THEN ToInt(toInt(comando_.valores[0]))
  ELSE 0

\* loop(), first part, once the line l is read and parsed into c: the
\* command is dispatched.  d is the time that passed since the clock was
\* last read.
Despachar(l, c, d) ==
  /\ pc = "serial"
  /\ PodeAvancar(d)
  /\ \E r \in processarComando(c, Estado, Depois(d)) :
        /\ Gravar(r.g)
        /\ serial' = r.g.serial
        /\ chamadas' = r.chamadas
        /\ contagem' = ContagemDe(c, r)
        /\ nivelInicial' = r.g.pino
  /\ linha' = l
  /\ comando' = c
  /\ antes' = Estado
  /\ transicoes' = 0
  /\ relogio' = Depois(d)
  /\ pc' = "piscar"

LoopComandoSemPasso(l, d) ==
  /\ pc = "serial"
  /\ PodeAvancar(d)
  /\ \E r \in processarComando(Analisado[l], Estado, Depois(d)) :
        /\ Gravar(r.g)
        /\ contagem' = ContagemDe(Analisado[l], r)
        /\ nivelInicial' = r.g.pino
  /\ transicoes' = 0
  /\ relogio' = Depois(d)
  /\ UNCHANGED <<pc, linha, comando, chamadas, serial, antes>>

\* loop(), first part: a line is available; it is read, parsed and dispatched.
LoopComando(l, d) == Despachar(l, Analisado[l], d)

\* loop(), first part: Serial.available() is 0.
LoopSemComando ==
  /\ pc = "serial"
  /\ pc' = "piscar"
  /\ UNCHANGED <<globais, relogio, linha, comando, chamadas, serial, antes,
                 contagem, nivelInicial, transicoes>>

\* loop(), second part: the blink step; the iteration ends and its locals
\* (the line, the Comando) go out of scope.
LoopPiscar(d1, d2) ==
  /\ pc = "piscar"
  /\ PodeAvancar(d1) /\ PodeAvancar(d1 + d2)
  /\ LET g == Piscar(Estado, Depois(d1), Depois(d1 + d2)) IN
     /\ Gravar(g)
     /\ transicoes' = IF g.pino # pino THEN transicoes + 1 ELSE transicoes
     /\ relogio' = IF g.pino # pino THEN Depois(d1 + d2) ELSE Depois(d1)
  /\ pc' = "serial"
  /\ linha' = Nenhuma
  /\ comando' = Nenhum
  /\ chamadas' = <<>>
  /\ serial' = <<>>
  /\ antes' = EstadoInicial
  /\ UNCHANGED <<contagem, nivelInicial>>

Next ==
  \/ \E l \in Linhas, d \in Atrasos : LoopComando(l, d)
  \/ LoopSemComando
  \/ \E d1 \in Avancos, d2 \in Atrasos : LoopPiscar(d1, d2)

Spec == Init /\ [][Next]_vars

(***************************************************************************)
(* analisarComando over every short line of a small alphabet: the line the *)
(* serial port delivers is chosen first, then loop() handles it.           *)
(***************************************************************************)
MaxLinha == 7
Alfabeto == {"a", " ", "\t"}

LinhasCurtas == UNION {[1..n -> Alfabeto] : n \in 0..MaxLinha}

\* Lines of up to maxValores + 2 words "a", each pair separated by one of
\* three separators.
Separadores == {<<" ">>, <<" ", " ">>, <<" ", "\t">>}

RECURSIVE ComSeparadores(_)
ComSeparadores(n) ==
  IF n = 1 THEN {<<"a">>}
  ELSE {l \o sep \o <<"a">> : l \in ComSeparadores(n - 1), sep \in Separadores}

LinhasLongas == UNION {ComSeparadores(n) : n \in (maxValores + 1)..(maxValores + 2)}

LinhasDeTeste == LinhasCurtas \cup LinhasLongas \cup Linhas

InitAnalisar ==
  /\ linha \in LinhasDeTeste
  /\ piscarAtivo = EstadoInicial.piscarAtivo
  /\ tempoAnteriorLigado = EstadoInicial.tempoAnteriorLigado
  /\ tempoAnteriorDesligado = EstadoInicial.tempoAnteriorDesligado
  /\ numPiscadasRestantes = EstadoInicial.numPiscadasRestantes
  /\ tempoLigadoAtual = EstadoInicial.tempoLigadoAtual
  /\ tempoDesligadoAtual = EstadoInicial.tempoDesligadoAtual
  /\ pino = EstadoInicial.pino
  /\ relogio = 0
  /\ pc = "serial"
  /\ comando = Nenhum
  /\ chamadas = <<>>
  /\ serial = <<>>
  /\ antes = EstadoInicial
  /\ contagem = 0
  /\ nivelInicial = LOW
  /\ transicoes = 0

\* loop(), first part, on the line delivered.
LoopLinha ==
  /\ linha # Nenhuma
  /\ Despachar(linha, analisarComando(linha), 0)

NextAnalisar ==
  \/ LoopLinha
  \/ \E d1 \in Avancos, d2 \in Atrasos : LoopPiscar(d1, d2)

SpecAnalisar == InitAnalisar /\ [][NextAnalisar]_vars

(***************************************************************************)
(* The sketch running for ever.  loop() uses the clock only through the    *)
(* differences millis() - tempoAnteriorLigado and millis() -               *)
(* tempoAnteriorDesligado, so the origin of time is moved to the last      *)
(* reading of the clock after every step: relogio stays 0 and the two      *)
(* timestamps are the (negated) time passed since they were stored, kept   *)
(* up to Horizonte, which no duration the lines configure exceeds.         *)
(***************************************************************************)
Horizonte == 2 * TempoPadrao

Recuar(anterior, agora) ==
  IF agora - anterior > Horizonte THEN 0 - Horizonte ELSE anterior - agora

Recuado(g, agora) ==
  [g EXCEPT !.tempoAnteriorLigado = Recuar(@, agora),
            !.tempoAnteriorDesligado = Recuar(@, agora)]

\* The lines that start, restart or stop a blink.
LinhasVivas ==
  {NomeLigarLed, NomeDesligarLed, NomePiscarLed}
  \cup {Juntar(<<NomePiscarLed, c>>) : c \in Contagens}
  \cup {Juntar(<<NomePiscarLed>> \o p) : p \in {<<T250, T1000>>, <<T0, T250>>}}
  \cup {Juntar(<<NomePiscarLed, <<"2">>, T500, T250>>)}

\* loop(), first part, with a line available.
VivoComando(l, d) ==
  /\ pc = "serial"
  /\ \E r \in processarComando(Analisado[l], Estado, Depois(d)) :
        /\ Gravar(Recuado(r.g, Depois(d)))
        /\ serial' = r.g.serial
        /\ chamadas' = r.chamadas
        /\ contagem' = ContagemDe(Analisado[l], r)
        /\ nivelInicial' = r.g.pino
  /\ linha' = l
  /\ comando' = Analisado[l]
  /\ antes' = Estado
  /\ pc' = "piscar"
  /\ UNCHANGED <<relogio, transicoes>>

\* loop(), second part: the blink step.
VivoPiscar(d1, d2) ==
  /\ pc = "piscar"
  /\ LET g == Piscar(Estado, Depois(d1), Depois(d1 + d2)) IN
     Gravar(Recuado(g, IF g.pino # pino THEN Depois(d1 + d2) ELSE Depois(d1)))
  /\ pc' = "serial"
  /\ linha' = Nenhuma
  /\ comando' = Nenhum
  /\ chamadas' = <<>>
  /\ serial' = <<>>
  /\ antes' = EstadoInicial
  /\ UNCHANGED <<relogio, contagem, nivelInicial, transicoes>>

\* A blink step before which the clock has advanced.
VivoPiscarComAvanco ==
  \E d1 \in Avancos \ {0}, d2 \in Atrasos : VivoPiscar(d1, d2)

NextVivo ==
  \/ \E l \in LinhasVivas, d \in Atrasos : VivoComando(l, d)
  \/ LoopSemComando
  \/ \E d1 \in Avancos, d2 \in Atrasos : VivoPiscar(d1, d2)

\* loop() is called again and again, and the timer interrupt keeps millis()
\* advancing between the iterations.
SpecVivo ==
  /\ Init
  /\ [][NextVivo]_vars
  /\ WF_vars(NextVivo)
  /\ SF_vars(VivoPiscarComAvanco)

(***************************************************************************)
(* The sketch around the moment millis() wraps: it has been idle since     *)
(* setup(), and the clock is MaxRelogio / 2 before 2^32 (a negative        *)
(* reading, see the head of the module).                                   *)
(***************************************************************************)
InitVolta ==
  /\ piscarAtivo = EstadoInicial.piscarAtivo
  /\ tempoAnteriorLigado = EstadoInicial.tempoAnteriorLigado
  /\ tempoAnteriorDesligado = EstadoInicial.tempoAnteriorDesligado
  /\ numPiscadasRestantes = EstadoInicial.numPiscadasRestantes
  /\ tempoLigadoAtual = EstadoInicial.tempoLigadoAtual
  /\ tempoDesligadoAtual = EstadoInicial.tempoDesligadoAtual
  /\ pino = EstadoInicial.pino
  /\ relogio = 0 - (MaxRelogio \div 2)
  /\ pc = "serial"
  /\ linha = Nenhuma
  /\ comando = Nenhum
  /\ chamadas = <<>>
  /\ serial = <<>>
  /\ antes = EstadoInicial
  /\ contagem = 0
  /\ nivelInicial = LOW
  /\ transicoes = 0

NextVolta ==
  \/ \E l \in LinhasVivas, d \in Atrasos : LoopComando(l, d)
  \/ LoopSemComando
  \/ \E d1 \in Avancos, d2 \in Atrasos : LoopPiscar(d1, d2)

SpecVolta == InitVolta /\ [][NextVolta]_vars

(***************************************************************************)
(* Properties                                                              *)
(***************************************************************************)
\* The state is the one a handler (or the unknown-command branch) left: a
\* command was dispatched in this iteration and the blink step has not run.
AposComando == pc = "piscar" /\ comando # Nenhum

AposHandler(funcao) == AposComando /\ chamadas = <<funcao>>

\* The i-th value of a command as the handlers read it.
Valor(c, i) == ToInt(toInt(c.valores[i]))

\* A piscarLed command that fails validation: a count or duration that is
\* not positive, or more than 3 values.
PiscarInvalido(c) ==
  \/ c.numValores = 1 /\ Valor(c, 0) <= 0
  \/ c.numValores = 2 /\ (Valor(c, 0) <= 0 \/ Valor(c, 1) <= 0)
  \/ c.numValores = 3 /\ (Valor(c, 0) <= 0 \/ Valor(c, 1) <= 0 \/ Valor(c, 2) <= 0)
  \/ c.numValores > 3

SemParametros == {"tratarStatus", "tratarLigarLed", "tratarDesligarLed", "tratarAjuda"}

\* C1 as stated: after a successful 'piscarLed N' and no further command,
\* the blink step makes exactly 2*N pin changes (the count left is 2*N less
\* those made, the blink is active exactly while fewer than 2*N were made)
\* and the pin is low once the blink is idle.
C1_DoisNTransicoesEApagado ==
  contagem > 0 =>
    /\ numPiscadasRestantes = 2 * contagem - transicoes
    /\ piscarAtivo <=> transicoes < 2 * contagem
    /\ ~piscarAtivo => pino = LOW

\* C2 as stated: an active blink stops only by ligarLed or desligarLed with
\* no values, or by a blink step that finds numPiscadasRestantes = 0.
ParadaPorLigarOuDesligar ==
  /\ pc = "serial" /\ pc' = "piscar"
  /\ chamadas' \in {<<"tratarLigarLed">>, <<"tratarDesligarLed">>}
  /\ comando'.numValores = 0

ParadaPorContagem ==
  pc = "piscar" /\ pc' = "serial" /\ numPiscadasRestantes' = 0

ParadaPorPiscarInvalido ==
  /\ pc = "serial" /\ pc' = "piscar"
  /\ chamadas' = <<"tratarPiscarLed">>
  /\ PiscarInvalido(comando')

C2_SoLigarDesligarOuContagem ==
  [][(piscarAtivo /\ ~piscarAtivo') =>
       (ParadaPorLigarOuDesligar \/ ParadaPorContagem)]_vars

\* C2 amended: an active blink stops only by ligarLed or desligarLed with no
\* values, by a piscarLed that fails validation, or by a blink step that
\* finds numPiscadasRestantes = 0.
C2_ParadasDoPiscar ==
  [][(piscarAtivo /\ ~piscarAtivo') =>
       (ParadaPorLigarOuDesligar \/ ParadaPorPiscarInvalido \/ ParadaPorContagem)]_vars

\* An active blink was stopped by a piscarLed that failed validation.
C2_Testemunha ==
  /\ AposHandler("tratarPiscarLed")
  /\ PiscarInvalido(comando)
  /\ antes.piscarAtivo
  /\ ~piscarAtivo

\* C3 as stated: a piscarLed that fails validation leaves piscarAtivo false
\* and the two durations and the count as they were.
C3_InvalidoNaoAplicaNada ==
  (AposHandler("tratarPiscarLed") /\ PiscarInvalido(comando)) =>
    /\ ~piscarAtivo
    /\ tempoLigadoAtual = antes.tempoLigadoAtual
    /\ tempoDesligadoAtual = antes.tempoDesligadoAtual
    /\ numPiscadasRestantes = antes.numPiscadasRestantes

\* A handler was called with a number of values it does not accept.
AridadeErrada ==
  \/ AposComando /\ Len(chamadas) = 1 /\ chamadas[1] \in SemParametros
       /\ comando.numValores # 0
  \/ AposHandler("tratarPiscarLed") /\ comando.numValores > 3

Diagnostico ==
  {ErroStatus, ErroLigarLed, ErroDesligarLed, ErroAjuda, ErroPiscarParametros}

\* C4 as stated: a handler called with a number of values it does not accept
\* prints a diagnostic and changes neither the pin nor any global.
C4_AridadeErradaNaoMudaNada ==
  AridadeErrada => (Len(serial) > 0 /\ serial[1] \in Diagnostico /\ Estado = antes)

\* C4 amended: a handler called with a number of values it does not accept
\* prints a diagnostic and changes neither the pin nor any global, except
\* that piscarLed leaves piscarAtivo false.
C4_AridadeErradaSoDesativa ==
  AridadeErrada =>
    /\ Len(serial) > 0 /\ serial[1] \in Diagnostico
    /\ Estado = [antes EXCEPT !.piscarAtivo =
                   IF chamadas = <<"tratarPiscarLed">> THEN FALSE ELSE @]

\* piscarLed with more than 3 values arrived while a blink was active.
C4_Testemunha ==
  /\ AposHandler("tratarPiscarLed")
  /\ comando.numValores > 3
  /\ antes.piscarAtivo
  /\ ~piscarAtivo

\* C5: status, ligarLed, desligarLed and ajuda called with 1 to 5 values
\* print their diagnostic and the number of values, and leave the pin and
\* every global as they were.
C5_SemParametrosComValores ==
  \A f \in SemParametros :
    (AposHandler(f) /\ comando.numValores \in 1..maxValores) =>
      /\ serial = <<CASE f = "tratarStatus" -> ErroStatus
                      [] f = "tratarLigarLed" -> ErroLigarLed
                      [] f = "tratarDesligarLed" -> ErroDesligarLed
                      [] f = "tratarAjuda" -> ErroAjuda,
                    NumeroFornecidos, Inteiro(comando.numValores)>>
      /\ Estado = antes

\* ligarLed arrived with 5 values while a blink was active with the pin low.
C5_Testemunha ==
  /\ AposHandler("tratarLigarLed")
  /\ comando.numValores = maxValores
  /\ antes.piscarAtivo
  /\ antes.pino = LOW

\* C6: ligarLed with no values leaves piscarAtivo false and the pin high,
\* desligarLed with no values leaves piscarAtivo false and the pin low, in
\* whatever state they arrive; and while piscarAtivo is false a blink step
\* keeps the pin level and keeps piscarAtivo false, so the level stays until
\* the next command.
C6_AposLigarOuDesligar ==
  /\ (AposHandler("tratarLigarLed") /\ comando.numValores = 0) =>
       (~piscarAtivo /\ pino = HIGH)
  /\ (AposHandler("tratarDesligarLed") /\ comando.numValores = 0) =>
       (~piscarAtivo /\ pino = LOW)

C6_LigarDesligarFixamOPino ==
  /\ []C6_AposLigarOuDesligar
  /\ [][(pc = "piscar" /\ ~piscarAtivo) => (pino' = pino /\ ~piscarAtivo')]_vars

\* ligarLed arrived while a blink was active with the pin low.
C6_Testemunha ==
  /\ AposHandler("tratarLigarLed")
  /\ comando.numValores = 0
  /\ antes.piscarAtivo
  /\ antes.pino = LOW
  /\ pino = HIGH

\* C7 as stated: a piscarLed that passes validation sets piscarAtivo and
\* configures the blink by number of values: none -> 1000, 1000, -1;
\* N -> 1000, 1000, 2*N; on, off -> on, off, -1; N, on, off -> on, off, 2*N.
C7_ConfiguracaoPorValores ==
  (AposHandler("tratarPiscarLed") /\ ~PiscarInvalido(comando)) =>
    /\ piscarAtivo
    /\ comando.numValores = 0 =>
         /\ tempoLigadoAtual = 1000 /\ tempoDesligadoAtual = 1000
         /\ numPiscadasRestantes = -1
    /\ comando.numValores = 1 =>
         /\ tempoLigadoAtual = 1000 /\ tempoDesligadoAtual = 1000
         /\ numPiscadasRestantes = 2 * Valor(comando, 0)
    /\ comando.numValores = 2 =>
         /\ tempoLigadoAtual = Valor(comando, 0)
         /\ tempoDesligadoAtual = Valor(comando, 1)
         /\ numPiscadasRestantes = -1
    /\ comando.numValores = 3 =>
         /\ tempoLigadoAtual = Valor(comando, 1)
         /\ tempoDesligadoAtual = Valor(comando, 2)
         /\ numPiscadasRestantes = 2 * Valor(comando, 0)

\* The name of the command equals no name of the table.
Desconhecido(c) ==
  \A i \in 0..4 : tabelaComandos[i].nome # c.nome

\* C8: a command whose name equals no table entry (upper and lower case
\* differ) prints the invalid-command text, the name and the hint to ajuda,
\* runs no handler, changes neither the pin nor any global, and loop() goes
\* on to its blink step.
C8_ComandoDesconhecido ==
  (AposComando /\ Desconhecido(comando)) =>
    /\ chamadas = <<>>
    /\ serial = <<ErroInvalido, Cadeia(comando.nome), DigiteAjuda>>
    /\ Estado = antes
    /\ ENABLED LoopPiscar(0, 0)

\* 'LigarLed' arrived while a blink was active.
C8_Testemunha ==
  /\ AposComando
  /\ comando.nome = <<"L", "i", "g", "a", "r", "L", "e", "d">>
  /\ antes.piscarAtivo

\* The handler each command name stands for.
HandlerDe(nome) ==
  CASE nome = NomeStatus -> "tratarStatus"
    [] nome = NomeLigarLed -> "tratarLigarLed"
    [] nome = NomePiscarLed -> "tratarPiscarLed"
    [] nome = NomeDesligarLed -> "tratarDesligarLed"
    [] nome = NomeAjuda -> "tratarAjuda"

TabelaBemFormada ==
  /\ DOMAIN tabelaComandos = 0..5
  /\ tabelaComandos[5].nome = nullptr
  /\ \A i \in 0..4 : tabelaComandos[i].nome \notin {nullptr, Vazia}
  /\ \A i, j \in 0..4 : i # j => tabelaComandos[i].nome # tabelaComandos[j].nome

\* C9: the table holds five distinct names and then the sentinel; a command
\* whose name is in the table runs exactly one handler, once: that of the
\* first entry with the name, which is the name's own handler, and the state
\* and the output it leaves are those of that handler called with the
\* command.
C9_UmHandlerODoNome ==
  /\ TabelaBemFormada
  /\ (AposComando /\ ~Desconhecido(comando)) =>
       LET i == CHOOSE k \in 0..4 :
                  /\ tabelaComandos[k].nome = comando.nome
                  /\ \A j \in 0..(k - 1) : tabelaComandos[j].nome # comando.nome
       IN /\ chamadas = <<tabelaComandos[i].funcao>>
          /\ chamadas = <<HandlerDe(comando.nome)>>
          /\ [Estado EXCEPT !.serial = serial]
               \in Chamar(tabelaComandos[i].funcao, comando, antes, relogio)

\* 'status' with a value arrived: the first entry of the table matched.
C9_Testemunha ==
  /\ AposHandler("tratarStatus")
  /\ comando.numValores = 1
  /\ serial = <<ErroStatus, NumeroFornecidos, Inteiro(1)>>

\* The words of a line: s cut at every character of seps, empty pieces kept.
RECURSIVE Cortar(_, _)
Cortar(s, seps) ==
  IF \E k \in 1..Len(s) : s[k] \in seps
  THEN LET k == CHOOSE n \in 1..Len(s) :
                  s[n] \in seps /\ \A j \in 1..(n - 1) : s[j] \notin seps
       IN <<SubSeq(s, 1, k - 1)>> \o Cortar(SubSeq(s, k + 1, Len(s)), seps)
  ELSE <<s>>

NaoVazias(pedacos) == SelectSeq(pedacos, LAMBDA x : x # <<>>)

\* The Comando made of a list of words: the first is the name, the next
\* maxValores at most are the values.
ComandoDe(palavras) ==
  [nome       |-> IF palavras = <<>> THEN Vazia ELSE palavras[1],
   valores    |-> [i \in 0..(maxValores - 1) |->
                     IF i + 2 <= Len(palavras) THEN palavras[i + 2] ELSE Vazia],
   numValores |-> IF Len(palavras) = 0 THEN 0
                  ELSE IF Len(palavras) - 1 > maxValores THEN maxValores
                  ELSE Len(palavras) - 1]

\* C10 as stated: the name and the values are the words of the line that
\* white space delimits (any run of the characters trimming removes).
C10_PalavrasPorEspacoEmBranco ==
  AposComando => comando = ComandoDe(NaoVazias(Cortar(linha, Espacos)))

\* C10 amended: the trimmed line is cut at the space character only; the
\* name is the piece before the first space and the values are the next
\* pieces in order (5 at most), each without the white space it starts with,
\* empty pieces skipped; a tab inside the line separates nothing.
PedacosPorEspaco(l) ==
  LET pedacos == Cortar(trim(l), {" "}) IN
  NaoVazias([k \in 1..Len(pedacos) |-> TrimEsquerda(pedacos[k])])

C10_PedacosPorEspaco ==
  AposComando => comando = ComandoDe(PedacosPorEspaco(linha))

\* A line with a tab inside its first word and two values was parsed.
C10_Testemunha ==
  /\ AposComando
  /\ comando.numValores = 2
  /\ \E k \in 1..Len(comando.nome) : comando.nome[k] = "\t"

\* C11: the number of values parse returns is between 0 and 5 and the values
\* are the slots 0..4, no other; when the line has more than 5 pieces after
\* the name, the values are the first 5 in order and nothing tells of the
\* rest: what the iteration prints and runs is what processarComando does
\* with the command of the first 5.
C11_NoMaximoCincoValores ==
  AposComando =>
    LET pedacos == PedacosPorEspaco(linha) IN
    /\ comando.numValores \in 0..maxValores
    /\ DOMAIN comando.valores = 0..(maxValores - 1)
    /\ \A k \in 0..(maxValores - 1) : k >= comando.numValores => comando.valores[k] = Vazia
    /\ Len(pedacos) - 1 > maxValores =>
         /\ comando.numValores = maxValores
         /\ \A k \in 0..(maxValores - 1) : comando.valores[k] = pedacos[k + 2]
         /\ [g |-> [Estado EXCEPT !.serial = serial], chamadas |-> chamadas]
              \in processarComando(ComandoDe(SubSeq(pedacos, 1, maxValores + 1)),
                                   antes, relogio)

\* A line of a name and 6 more pieces was parsed.
C11_Testemunha ==
  /\ AposComando
  /\ Len(PedacosPorEspaco(linha)) = maxValores + 2
  /\ comando.numValores = maxValores

\* The line has no character other than white space.
SoEspacos(l) == \A k \in 1..Len(l) : l[k] \in Espacos

\* C12: a line that is empty or all white space parses to the Comando with
\* the empty name and no values, and dispatching it prints the
\* invalid-command text, the empty name and the hint, runs no handler and
\* changes neither the pin nor any global.
C12_LinhaVazia ==
  (AposComando /\ SoEspacos(linha)) =>
    /\ comando = ComandoVazio
    /\ chamadas = <<>>
    /\ serial = <<ErroInvalido, Cadeia(Vazia), DigiteAjuda>>
    /\ Estado = antes

\* A line of spaces and a tab arrived while a blink was active.
C12_Testemunha ==
  /\ AposComando
  /\ Len(linha) > 0 /\ SoEspacos(linha)
  /\ antes.piscarAtivo
  /\ piscarAtivo

\* C13: piscarLed with 1, 2 or 3 values of which a count or a duration is
\* not positive leaves piscarAtivo false and the pin at the level it had,
\* whatever the state before.
C13_InvalidoDesativaENaoTocaOPino ==
  (AposHandler("tratarPiscarLed") /\ comando.numValores \in 1..3
     /\ PiscarInvalido(comando)) =>
    (~piscarAtivo /\ pino = antes.pino)

\* piscarLed with a duration of 0 arrived while a blink was active with the
\* pin high.
C13_Testemunha ==
  /\ AposHandler("tratarPiscarLed")
  /\ comando.numValores = 2 /\ Valor(comando, 1) = 0
  /\ antes.piscarAtivo /\ antes.pino = HIGH
  /\ ~piscarAtivo /\ pino = HIGH

\* C14: piscarLed with 4 or 5 values prints its error, leaves piscarAtivo
\* false and leaves the two durations and the count as they were.
C14_QuatroOuCincoValores ==
  (AposHandler("tratarPiscarLed") /\ comando.numValores \in {4, 5}) =>
    /\ serial = <<ErroPiscarParametros>>
    /\ ~piscarAtivo
    /\ tempoLigadoAtual = antes.tempoLigadoAtual
    /\ tempoDesligadoAtual = antes.tempoDesligadoAtual
    /\ numPiscadasRestantes = antes.numPiscadasRestantes

\* piscarLed with 4 values arrived while a blink with durations other than
\* the default was counting down.
C14_Testemunha ==
  /\ AposHandler("tratarPiscarLed")
  /\ comando.numValores = 4
  /\ antes.piscarAtivo
  /\ antes.tempoLigadoAtual # TempoPadrao
  /\ antes.numPiscadasRestantes > 0

\* C15: while piscarAtivo is false the blink step writes no pin and changes
\* nothing: the pin, the flag, the durations, the count and the two
\* timestamps stay, whatever the clock reads.
C15_InativoNaoFazNada ==
  [][(pc = "piscar" /\ ~piscarAtivo) =>
       (UNCHANGED globais /\ transicoes' = transicoes)]_vars

\* A blink step ran after a command left the blink idle with the pin high,
\* at a time when the on-duration had passed since the stored timestamp.
C15_Testemunha ==
  /\ pc = "serial"
  /\ ~piscarAtivo
  /\ pino = HIGH /\ nivelInicial = HIGH /\ transicoes = 0
  /\ Venceu(relogio, tempoAnteriorLigado, tempoLigadoAtual)
  /\ relogio > 0

\* What C16 says one blink step does, agora being the clock it compares.
PassoDoPiscar(agora) ==
  /\ IF pino = LOW /\ agora - tempoAnteriorDesligado >= tempoDesligadoAtual
     THEN /\ pino' = HIGH
          /\ tempoAnteriorLigado' = relogio'
          /\ tempoAnteriorDesligado' = tempoAnteriorDesligado
          /\ numPiscadasRestantes' =
               IF numPiscadasRestantes > 0 THEN numPiscadasRestantes - 1
               ELSE numPiscadasRestantes
     ELSE IF pino = HIGH /\ agora - tempoAnteriorLigado >= tempoLigadoAtual
     THEN /\ pino' = LOW
          /\ tempoAnteriorDesligado' = relogio'
          /\ tempoAnteriorLigado' = tempoAnteriorLigado
          /\ numPiscadasRestantes' =
               IF numPiscadasRestantes > 0 THEN numPiscadasRestantes - 1
               ELSE numPiscadasRestantes
     ELSE UNCHANGED <<pino, tempoAnteriorLigado, tempoAnteriorDesligado,
                      numPiscadasRestantes>>
  /\ UNCHANGED <<tempoLigadoAtual, tempoDesligadoAtual>>
  /\ piscarAtivo' = (numPiscadasRestantes' # 0)
  /\ transicoes' \in {transicoes, transicoes + 1}

\* C16: a blink step with piscarAtivo true does this and nothing else: with
\* the pin low and the off-duration passed since tempoAnteriorDesligado it
\* sets the pin high, stores the clock in tempoAnteriorLigado and takes 1
\* from a count above 0; with the pin high and the on-duration passed since
\* tempoAnteriorLigado it sets the pin low, stores the clock in
\* tempoAnteriorDesligado and takes 1 likewise; otherwise pin, count and
\* timestamps stay; the pin changes once at most; and piscarAtivo becomes
\* false exactly when the count is 0 at the end.  The clock compared is read
\* in the step, no later than the clock stored.
C16_PassoDoPiscar ==
  [][(pc = "piscar" /\ piscarAtivo) =>
       \E d \in Atrasos : relogio' - d >= relogio /\ PassoDoPiscar(relogio' - d)]_vars

\* A blink step set the pin high, stored the clock, took the count from 1
\* to 0 and left the blink idle.
C16_Testemunha ==
  /\ pc = "serial"
  /\ contagem > 0 /\ transicoes = 2 * contagem
  /\ pino = HIGH /\ tempoAnteriorLigado = relogio
  /\ numPiscadasRestantes = 0 /\ ~piscarAtivo

\* A blink without a count is running.
SemContagem == piscarAtivo /\ numPiscadasRestantes = -1

\* C17: a piscarLed with 0 or 2 values that passes validation leaves
\* piscarAtivo true and the count -1; from then on no step of loop() other
\* than the dispatch of a command changes either, whatever the clock reads;
\* and every blink step that finds the duration of the phase passed changes
\* the pin level.
C17_AposPiscarSemContagem ==
  (AposHandler("tratarPiscarLed") /\ comando.numValores \in {0, 2}
     /\ ~PiscarInvalido(comando)) => SemContagem

C17_SemContagemNaoTermina ==
  /\ []C17_AposPiscarSemContagem
  /\ [][(SemContagem /\ comando' = Nenhum) => SemContagem']_vars
  /\ [][(SemContagem /\ pc = "piscar"
           /\ relogio - (IF pino = LOW THEN tempoAnteriorDesligado
                                       ELSE tempoAnteriorLigado)
                >= (IF pino = LOW THEN tempoDesligadoAtual ELSE tempoLigadoAtual))
          => pino' # pino]_vars

\* A blink started without a count has changed the pin three times and is
\* still active.
C17_Testemunha ==
  /\ pc = "serial"
  /\ SemContagem
  /\ contagem = 0 /\ transicoes >= 3

\* C18 as stated: once a piscarLed with a count N > 0 has started a blink,
\* if no further command arrives the blink becomes idle with the count 0.
C18_PiscarComContagemTermina ==
  (pc = "serial" /\ contagem > 0) ~>
     ((~piscarAtivo /\ numPiscadasRestantes = 0) \/ AposComando)

\* C19: an iteration of loop() is a first part, in which at most one line is
\* read, parsed and dispatched (at most one handler runs, and the globals,
\* the pin and the output are then those processarComando leaves), followed
\* by one blink step, which works on the state the handler left; no
\* iteration skips the blink step or runs it twice, with or without a
\* command.
C19_UmaLinhaEUmPassoPorIteracao ==
  [][/\ pc = "serial" =>
          /\ pc' = "piscar"
          /\ \/ comando' = Nenhum /\ chamadas' = <<>> /\ UNCHANGED globais
             \/ /\ comando' = analisarComando(linha')
                /\ Len(chamadas') <= 1
                /\ [g |-> [Estado' EXCEPT !.serial = serial'], chamadas |-> chamadas']
                     \in processarComando(comando', Estado, relogio')
     /\ pc = "piscar" =>
          /\ pc' = "serial"
          /\ \E d1 \in Avancos, d2 \in Atrasos :
                Estado' = Piscar(Estado, relogio + d1, relogio + d1 + d2)]_vars

\* piscarLed N was dispatched and a blink step has since changed the pin.
C19_Testemunha ==
  /\ pc = "serial"
  /\ contagem > 0 /\ transicoes = 1
  /\ piscarAtivo /\ numPiscadasRestantes = 2 * contagem - 1

\* C20 as stated: in every reachable state the two durations are positive.
C20_DuracoesPositivas ==
  tempoLigadoAtual > 0 /\ tempoDesligadoAtual > 0

\* A piscarLed that passed validation was handled in this iteration.
AposPiscarValido ==
  AposHandler("tratarPiscarLed") /\ ~PiscarInvalido(comando)

\* The timestamp and the duration of the phase the pin is in.
InicioDaFase == IF pino = HIGH THEN tempoAnteriorLigado ELSE tempoAnteriorDesligado

DuracaoDaFase == IF pino = HIGH THEN tempoLigadoAtual ELSE tempoDesligadoAtual

C21_CarimboDaFase == AposPiscarValido => InicioDaFase = relogio

\* C21 as stated: a piscarLed that passes validation stores the clock as the
\* start of the phase the pin is in (tempoAnteriorLigado with the pin high,
\* tempoAnteriorDesligado with the pin low), and the blink step that follows
\* it changes the pin only if the duration of that phase has passed since
\* the command was handled.
C21_FaseComecaNoComando ==
  /\ []C21_CarimboDaFase
  /\ [][(AposPiscarValido /\ pino' # pino) => relogio' - relogio >= DuracaoDaFase]_vars

\* C22 as stated: for every count piscarLed accepts, the count left is
\* positive and is twice the count given.
C22_DobroPositivo ==
  (AposPiscarValido /\ comando.numValores \in {1, 3}) =>
    /\ numPiscadasRestantes > 0
    /\ numPiscadasRestantes = 2 * Valor(comando, 0)

\* C23 as stated: when a blink step starts with piscarAtivo true, the two
\* durations are positive and the count is -1 or positive.
C23_ConfiguracaoCompleta ==
  (pc = "piscar" /\ piscarAtivo) =>
    /\ tempoLigadoAtual > 0
    /\ tempoDesligadoAtual > 0
    /\ numPiscadasRestantes = -1 \/ numPiscadasRestantes > 0

\* C24: with no command in between, a blink step that changes the pin
\* stores the clock as the start of the new phase, nothing but such a step
\* changes the start of the phase, and the next blink step that changes the
\* pin comes when at least the duration of the phase has passed on the
\* clock since: the pin stays high for tempoLigadoAtual at least and low for
\* tempoDesligadoAtual at least, also when millis() wraps in between.
C24_FasesDuramOConfigurado ==
  /\ [][(pc = "piscar" /\ pino' # pino) => InicioDaFase' = relogio']_vars
  /\ [][(comando' = Nenhum /\ pino' = pino) => InicioDaFase' = InicioDaFase]_vars
  /\ [][(pc = "piscar" /\ transicoes >= 1 /\ pino' # pino)
          => relogio' - InicioDaFase >= DuracaoDaFase]_vars

\* A blink step changed the pin after millis() wrapped, ending a phase that
\* a blink step had started before the wrap.
C24_Testemunha ==
  /\ pc = "serial"
  /\ transicoes >= 2
  /\ InicioDaFase = relogio /\ relogio >= 0
  /\ (IF pino = HIGH THEN tempoAnteriorDesligado ELSE tempoAnteriorLigado) < 0

\* C25: when the blink that piscarLed N started has become idle with no
\* command in between, the blink steps have changed the pin an even number
\* of times and the pin is at the level it had when the command was
\* handled: low exactly when it was low then.
C25_NivelFinalIgualAoInicial ==
  (contagem > 0 /\ ~piscarAtivo) =>
    /\ transicoes % 2 = 0
    /\ pino = nivelInicial
    /\ pino = LOW <=> nivelInicial = LOW

\* piscarLed N arrived with the pin high; the blink ran to idle and left
\* the pin high.
C25_Testemunha ==
  /\ contagem > 0 /\ ~piscarAtivo
  /\ transicoes > 0
  /\ nivelInicial = HIGH /\ pino = HIGH

\* The blink configuration and the timestamps of a state.
Quadro(g) ==
  <<g.tempoLigadoAtual, g.tempoDesligadoAtual, g.numPiscadasRestantes,
    g.tempoAnteriorLigado, g.tempoAnteriorDesligado>>

C26_QuadroDosHandlers ==
  /\ \A f \in {"tratarStatus", "tratarAjuda"} : AposHandler(f) => Estado = antes
  /\ \A f \in {"tratarLigarLed", "tratarDesligarLed"} :
       (AposHandler(f) /\ comando.numValores = 0) => Quadro(Estado) = Quadro(antes)

\* C26: status and ajuda, with any number of values, change neither the pin
\* nor any global; ligarLed and desligarLed with no values leave the two
\* durations, the count and the two timestamps as they were; and the pin
\* changes only by ligarLed or desligarLed with no values or by a blink
\* step that finds piscarAtivo true.
C26_QuadroEPino ==
  /\ []C26_QuadroDosHandlers
  /\ [][pino' # pino =>
          \/ pc = "piscar" /\ piscarAtivo
          \/ /\ pc = "serial"
             /\ chamadas' \in {<<"tratarLigarLed">>, <<"tratarDesligarLed">>}
             /\ comando'.numValores = 0]_vars

\* desligarLed arrived while a blink was counting down with the pin high.
C26_Testemunha ==
  /\ AposHandler("tratarDesligarLed")
  /\ comando.numValores = 0
  /\ antes.piscarAtivo /\ antes.pino = HIGH
  /\ antes.numPiscadasRestantes > 0
  /\ pino = LOW /\ ~piscarAtivo

\* The string holds the space character.
TemEspaco(s) == \E k \in 1..Len(s) : s[k] = " "

\* C27: the Comando parse returns is well formed: no space in the name;
\* each of the first numValores values is not empty and holds no space;
\* every slot from numValores on is empty; an empty name comes with no
\* values; and a trimmed line that holds a space gives one value at least.
C27_ComandoBemFormado ==
  AposComando =>
    /\ ~TemEspaco(comando.nome)
    /\ \A k \in 0..(maxValores - 1) :
         IF k < comando.numValores
         THEN comando.valores[k] # Vazia /\ ~TemEspaco(comando.valores[k])
         ELSE comando.valores[k] = Vazia
    /\ comando.nome = Vazia => comando.numValores = 0
    /\ TemEspaco(trim(linha)) => comando.numValores >= 1

\* A line that starts with white space and has runs of spaces between its
\* three pieces was parsed.
C27_Testemunha ==
  /\ AposComando
  /\ Len(linha) > 0 /\ linha[1] \in Espacos
  /\ \E k \in 1..(Len(linha) - 1) : linha[k] = " " /\ linha[k + 1] = " "
  /\ comando.numValores = 2

=============================================================================
